---- MODULE Spec2Model ----
(***************************************************************************)
(* Two-phase conversational triage engine of the IT-support copilot:       *)
(*   server/ai-chat-helper.ts  hasEnoughInfo, extractInfo,                 *)
(*                             getTwoPhaseResponse                         *)
(*   the chat routes           POST /api/copilot/chat,                     *)
(*                             POST /api/tickets/:id/chat                  *)
(*   MemStorage                conversations, conversationMessages         *)
(*                                                                         *)
(* Strings are sequences of atoms.  An atom is a token (a run of           *)
(* non-blank characters) or one blank; n is the number of characters of    *)
(* the token that are present, so a prefix cut inside a token is an atom   *)
(* with a smaller n.                                                       *)
(***************************************************************************)
EXTENDS Integers, Sequences, FiniteSets, TLC

(***************************************************************************)
(* Bounds of the model                                                     *)
(***************************************************************************)
MaxFolds == 3

NumReqs == 2

MaxConvs == 2

MaxTurns == 2

(***************************************************************************)
(* Text                                                                    *)
(***************************************************************************)
TokLen(s) ==
    CASE s = "blob"    -> 250
      [] s = "Windows" -> 7
      [] s = "windows" -> 7
      [] s = "macbook" -> 7
      [] s = "laptop"  -> 6
      [] s = "screen"  -> 6
      [] s = "broken"  -> 6
      [] s = "macos"   -> 5
      [] s = "linux"   -> 5
      [] s = "help"    -> 4
      [] s = "mac"     -> 3
      [] s = "..."     -> 3
      [] s = "os"      -> 2
      [] s = "pc"      -> 2
      [] s = "my"      -> 2
      [] s = "is"      -> 2
      [] s = "hi"      -> 2
      [] s = "10"      -> 2
      [] s = "next_action" -> 11
      [] s = "questions"   -> 9
      [] s = "message"     -> 7
      [] s = "phase"   -> 5
      [] s = "steps"   -> 5
      [] s = "false"   -> 5
      [] s = "null"    -> 4
      [] s = "true"    -> 4
      [] s = "\"hi\""  -> 4
      [] s = "{}"      -> 2
      [] s = "[]"      -> 2
      [] OTHER         -> 1

T(s) == [w |-> s, n |-> TokLen(s)]

SP == [w |-> " ", n |-> 1]

IsSpace(a) == a.w = " "

\* the words ws separated by single blanks
Sent(ws) ==
    [i \in 1..(2 * Len(ws) - 1) |-> IF i % 2 = 1 THEN T(ws[(i + 1) \div 2]) ELSE SP]

\* k copies of the word s separated by single blanks
Rep(k, s) == Sent([i \in 1..k |-> s])

\* the number of characters of the first i atoms of t
CharsUpTo(t, i) == Cardinality(UNION {{j} \X (1..t[j].n) : j \in 1..i})

CharLen(t) == CharsUpTo(t, Len(t))

\* String.prototype.slice(0, k): the atoms that fit whole, then the part of
\* the next atom that fits
Slice(t, k) ==
    LET m == Cardinality({i \in 1..Len(t) : CharsUpTo(t, i) <= k})
        rest == k - CharsUpTo(t, m)
    IN  IF m = Len(t) THEN t
        ELSE IF rest > 0 THEN Append(SubSeq(t, 1, m), [t[m + 1] EXCEPT !.n = rest])
        ELSE SubSeq(t, 1, m)

Lower(w) == IF w = "Windows" THEN "windows" ELSE w

\* String.prototype.toLowerCase()
toLowerCase(t) == [i \in DOMAIN t |-> [t[i] EXCEPT !.w = Lower(@)]]

\* the atoms that start a maximal run of blanks (a match of /\s+/)
RunStarts(t) == {i \in 1..Len(t) : IsSpace(t[i]) /\ (i = 1 \/ ~IsSpace(t[i - 1]))}

\* t.split(/\s+/).length: one piece more than there are runs of blanks; a
\* leading or trailing run leaves an empty piece that counts
SplitLength(t) == Cardinality(RunStarts(t)) + 1

\* t.split(/\s+/).slice(0, k).join(" ") when the split has more than k
\* pieces: t up to the k-th run of blanks, each run replaced by one blank
JoinFirst(t, k) ==
    LET runs == RunStarts(t)
        cut == CHOOSE i \in runs : Cardinality({j \in runs : j <= i}) = k
        marked == [i \in 1..(cut - 1) |-> [a |-> t[i], keep |-> ~IsSpace(t[i]) \/ i \in runs]]
        kept == SelectSeq(marked, LAMBDA x : x.keep)
    IN  [i \in DOMAIN kept |-> kept[i].a]

\* the number of whitespace-delimited words of a text
WordCount(t) ==
    Cardinality({i \in 1..Len(t) : ~IsSpace(t[i]) /\ (i = 1 \/ IsSpace(t[i - 1]))})

(***************************************************************************)
(* Regular expressions of ai-chat-helper.ts, on lower-cased text.  Every   *)
(* token of the vocabulary either is one alternative of the expression or  *)
(* holds none of them, except where the tables below say otherwise.        *)
(***************************************************************************)
\* last index of the run of blanks that starts at i (i - 1 when t[i] is no blank)
RECURSIVE SpaceRunEnd(_, _)
SpaceRunEnd(t, i) ==
    IF i <= Len(t) /\ IsSpace(t[i]) THEN SpaceRunEnd(t, i + 1) ELSE i - 1

\* the tokens of the vocabulary that are digits only
IsDigits(w) == w = "10"

\* /windows\s*\d*|macos|mac\s*os|linux|ubuntu|ios|android|chromeos/ matched at atom i
OsMatchAt(t, i) ==
    LET w == t[i].w
        j == SpaceRunEnd(t, i + 1)
    IN  CASE w = "windows" ->
               SubSeq(t, i, IF j + 1 <= Len(t) /\ IsDigits(t[j + 1].w) THEN j + 1 ELSE j)
          [] w = "mac" ->
               IF j + 1 <= Len(t) /\ t[j + 1].w = "os" THEN SubSeq(t, i, j + 1) ELSE <<>>
          [] w \in {"macos", "linux", "ubuntu", "ios", "android", "chromeos"} -> <<t[i]>>
          [] OTHER -> <<>>

\* /laptop|desktop|phone|tablet|monitor|pc|computer|macbook|imac/ matched at atom i
DeviceMatchAt(t, i) ==
    IF t[i].w \in {"laptop", "desktop", "phone", "tablet", "monitor", "pc",
                   "computer", "macbook", "imac"}
    THEN <<t[i]>> ELSE <<>>

\* String.prototype.match without the g flag: the leftmost match, <<>> for null
RECURSIVE OsMatchFrom(_, _)
OsMatchFrom(t, i) ==
    IF i > Len(t) THEN <<>>
    ELSE IF OsMatchAt(t, i) # <<>> THEN OsMatchAt(t, i)
    ELSE OsMatchFrom(t, i + 1)

osMatch(msg) == OsMatchFrom(msg, 1)

RECURSIVE DeviceMatchFrom(_, _)
DeviceMatchFrom(t, i) ==
    IF i > Len(t) THEN <<>>
    ELSE IF DeviceMatchAt(t, i) # <<>> THEN DeviceMatchAt(t, i)
    ELSE DeviceMatchFrom(t, i + 1)

deviceMatch(msg) == DeviceMatchFrom(msg, 1)

\* /windows|mac|linux|ios|android|chromeos/i.test(msg): "macos", "macbook" and
\* "imac" hold "mac"
OsTest(msg) ==
    \E i \in DOMAIN msg :
        msg[i].w \in {"windows", "mac", "macos", "macbook", "imac", "linux", "ios",
                      "android", "chromeos"}

\* /laptop|desktop|phone|tablet|monitor|pc|computer|screen/i.test(msg)
DeviceTest(msg) ==
    \E i \in DOMAIN msg :
        msg[i].w \in {"laptop", "desktop", "phone", "tablet", "monitor", "pc",
                      "computer", "screen"}

(***************************************************************************)
(* CollectedInfo.  A field that is undefined is the empty text (both are   *)
(* falsy); isNull tells the null record from {}.                           *)
(***************************************************************************)
NullInfo ==
    [isNull |-> TRUE, os |-> <<>>, deviceType |-> <<>>, symptom |-> <<>>,
     additionalContext |-> <<>>]

SymptomCap == 200

ContextCap == 300

ContextWords == 5

hasEnoughInfo(collectedInfo, userMessage) ==
    LET msg == toLowerCase(userMessage)
        info == collectedInfo
        hasOS == info.os # <<>> \/ OsTest(msg)
        hasDevice == info.deviceType # <<>> \/ DeviceTest(msg)
        hasContext == info.additionalContext # <<>> \/ SplitLength(msg) >= ContextWords
    IN  (hasOS /\ hasDevice) \/ hasContext

\* the os slot after the first if-statement of extractInfo
ExtractOsOverwrite(info, msg) == IF osMatch(msg) # <<>> THEN osMatch(msg) ELSE info.os

ExtractOs(info, msg) ==
    IF info.os = <<>> THEN (IF osMatch(msg) # <<>> THEN osMatch(msg) ELSE info.os)
    ELSE info.os

ExtractDevice(info, msg) ==
    IF info.deviceType = <<>>
    THEN (IF deviceMatch(msg) # <<>> THEN deviceMatch(msg) ELSE info.deviceType)
    ELSE info.deviceType

extractInfo(existing, userMessage) ==
    LET msg == toLowerCase(userMessage)
    IN  [isNull |-> FALSE,
         os |-> ExtractOs(existing, msg),
         deviceType |-> ExtractDevice(existing, msg),
         symptom |-> IF existing.symptom = <<>> THEN Slice(userMessage, SymptomCap)
                     ELSE existing.symptom,
         additionalContext |->
             IF SplitLength(userMessage) >= ContextWords
             THEN (IF existing.additionalContext # <<>>
                   THEN existing.additionalContext \o <<SP, T("|"), SP>>
                   ELSE <<>>) \o Slice(userMessage, ContextCap)
             ELSE existing.additionalContext]

(***************************************************************************)
(* User messages                                                           *)
(***************************************************************************)
MsgHi == Sent(<<"hi">>)

MsgWinLaptop == Sent(<<"Windows", "laptop">>)

MsgWin10 == Sent(<<"windows", "10">>)

MsgMac == Sent(<<"mac">>)

MsgMacOsPc == Sent(<<"mac", "os", "pc">>)

MsgLinux == Sent(<<"linux">>)

MsgMacbook == Sent(<<"macbook">>)

MsgLong == Sent(<<"my", "screen", "is", "broken", "help">>)

MsgBlob == Sent(<<"blob">>)

\* names no operating system and no device that extractInfo knows
MsgMacScreen == Sent(<<"mac", "screen">>)

\* three words between a leading and a trailing blank: split(/\s+/) gives 5
\* pieces, the first and the last empty
MsgPadded == <<SP>> \o Sent(<<"my", "screen", "broken">>) \o <<SP>>

\* five words, more than ContextCap characters
MsgLongBlob == Sent(<<"blob", "blob", "my", "is", "help">>)

FoldMessages ==
    {MsgHi, MsgWinLaptop, MsgWin10, MsgMac, MsgMacOsPc, MsgLinux, MsgMacbook, MsgLong,
     MsgBlob, MsgMacScreen, MsgPadded, MsgLongBlob}

(***************************************************************************)
(* JSON values as JavaScript sees them.  t is the type of the value        *)
(* ("absent" is a property that is not there), b, n, s, l its payload.     *)
(* The entries of a list are strings.                                      *)
(***************************************************************************)
JAbsent == [t |-> "absent", b |-> FALSE, n |-> 0, s |-> <<>>, l |-> <<>>]

JNull == [JAbsent EXCEPT !.t = "null"]

JBool(x) == [JAbsent EXCEPT !.t = "bool", !.b = x]

JNum(x) == [JAbsent EXCEPT !.t = "num", !.n = x]

JStr(x) == [JAbsent EXCEPT !.t = "str", !.s = x]

JList(x) == [JAbsent EXCEPT !.t = "list", !.l = x]

JObj == [JAbsent EXCEPT !.t = "obj"]

\* ToBoolean
Truthy(v) ==
    CASE v.t \in {"absent", "null"} -> FALSE
      [] v.t = "bool" -> v.b
      [] v.t = "num" -> v.n # 0
      [] v.t = "str" -> v.s # <<>>
      [] OTHER -> TRUE

\* v.length is a number for strings and arrays and undefined otherwise
HasLength(v) == v.t \in {"str", "list"}

LengthOf(v) == IF v.t = "str" THEN CharLen(v.s) ELSE Len(v.l)

\* v.slice(0, k) of a string or an array
SliceJ(v, k) ==
    IF v.t = "str" THEN JStr(Slice(v.s, k))
    ELSE JList(SubSeq(v.l, 1, IF Len(v.l) < k THEN Len(v.l) ELSE k))

(***************************************************************************)
(* The text the backend returned (completion.choices[0].message.content).  *)
(* kind "empty" is null or ""; kind "text" is text that JSON.parse         *)
(* rejects, body holds it; kind "json" is JSON text, given by the value it *)
(* denotes: top is the type of the top-level value and, for an object,     *)
(* the five properties the code reads.                                     *)
(***************************************************************************)
EmptyObject ==
    [kind |-> "json", top |-> "obj", body |-> <<>>, message |-> JAbsent,
     questions |-> JAbsent, steps |-> JAbsent, phase |-> JAbsent,
     next_action |-> JAbsent]

EmptyContent == [EmptyObject EXCEPT !.kind = "empty"]

TextContent(t) == [EmptyObject EXCEPT !.kind = "text", !.body = t]

TopContent(top) == [EmptyObject EXCEPT !.top = top]

ObjectContent(m, q, s, p, a) ==
    [EmptyObject EXCEPT !.message = m, !.questions = q, !.steps = s, !.phase = p,
                        !.next_action = a]

RECURSIVE StrList(_)
StrList(l) ==
    IF l = <<>> THEN <<>>
    ELSE <<T("\"")>> \o Head(l) \o <<T("\"")>>
         \o (IF Len(l) > 1 THEN <<T(",")>> ELSE <<>>) \o StrList(Tail(l))

\* the JSON text of a value, without blanks outside strings
StrJ(v) ==
    CASE v.t = "null" -> <<T("null")>>
      [] v.t = "bool" -> <<T(IF v.b THEN "true" ELSE "false")>>
      [] v.t = "num" -> <<T(ToString(v.n))>>
      [] v.t = "str" -> <<T("\"")>> \o v.s \o <<T("\"")>>
      [] v.t = "list" -> <<T("[")>> \o StrList(v.l) \o <<T("]")>>
      [] v.t = "obj" -> <<T("{}")>>
      [] OTHER -> <<>>

StrField(name, v) ==
    IF v.t = "absent" THEN <<>>
    ELSE <<T("\""), T(name), T("\""), T(":")>> \o StrJ(v) \o <<T(",")>>

\* the text of a content
RawText(c) ==
    CASE c.kind = "empty" -> <<>>
      [] c.kind = "text" -> c.body
      [] c.top = "obj" ->
            <<T("{")>> \o StrField("phase", c.phase) \o StrField("message", c.message)
            \o StrField("questions", c.questions) \o StrField("steps", c.steps)
            \o StrField("next_action", c.next_action) \o <<T("}")>>
      [] c.top = "arr" -> <<T("[]")>>
      [] c.top = "null" -> <<T("null")>>
      [] c.top = "num" -> <<T("5")>>
      [] c.top = "str" -> <<T("\"hi\"")>>
      [] OTHER -> <<T("true")>>

\* completion.choices[0]?.message?.content || "{}"
RawOf(content) == IF content.kind = "empty" THEN EmptyObject ELSE content

(***************************************************************************)
(* getTwoPhaseResponse, from the backend's answer on                       *)
(***************************************************************************)
COLLECT_INFO == "COLLECT_INFO"

DIAGNOSE == "DIAGNOSE"

WAIT_FOR_USER == "WAIT_FOR_USER"

APPLY_STEPS == "APPLY_STEPS"

CollectWords == 60

DiagnoseWords == 80

MaxQuestions == 2

MaxSteps == 3

W(s, n) == [w |-> s, n |-> n]

Words(ws) == [i \in 1..(2 * Len(ws) - 1) |-> IF i % 2 = 1 THEN ws[(i + 1) \div 2] ELSE SP]

\* "I'm here to help with your IT issue."
DefaultMessage ==
    Words(<<W("I'm", 3), W("here", 4), W("to", 2), W("help", 4), W("with", 4),
            W("your", 4), W("IT", 2), W("issue.", 6)>>)

\* "Could you share a bit more about what's happening?"
DefaultQuestion ==
    Words(<<W("Could", 5), W("you", 3), W("share", 5), W("a", 1), W("bit", 3),
            W("more", 4), W("about", 5), W("what's", 6), W("happening?", 10)>>)

\* "Try restarting your device and check if the issue persists."
DefaultStep ==
    Words(<<W("Try", 3), W("restarting", 10), W("your", 4), W("device", 6),
            W("and", 3), W("check", 5), W("if", 2), W("the", 3), W("issue", 5),
            W("persists.", 9)>>)

\* "I'd like to help. Could you give me a bit more detail?"
FallbackCollectMessage ==
    Words(<<W("I'd", 3), W("like", 4), W("to", 2), W("help.", 5), W("Could", 5),
            W("you", 3), W("give", 4), W("me", 2), W("a", 1), W("bit", 3),
            W("more", 4), W("detail?", 7)>>)

\* "What device are you using (laptop, desktop, phone)?",
\* "What operating system is it running?"
FallbackQuestions ==
    << Words(<<W("What", 4), W("device", 6), W("are", 3), W("you", 3), W("using", 5),
               W("(laptop,", 8), W("desktop,", 8), W("phone)?", 7)>>),
       Words(<<W("What", 4), W("operating", 9), W("system", 6), W("is", 2),
               W("it", 2), W("running?", 8)>>) >>

\* "Let's try a basic fix first."
FallbackDiagnoseMessage ==
    Words(<<W("Let's", 5), W("try", 3), W("a", 1), W("basic", 5), W("fix", 3),
            W("first.", 6)>>)

\* "Restart your device and see if the issue persists."
FallbackStep ==
    Words(<<W("Restart", 7), W("your", 4), W("device", 6), W("and", 3), W("see", 3),
            W("if", 2), W("the", 3), W("issue", 5), W("persists.", 9)>>)

NoResp ==
    [phase |-> "", message |-> <<>>, questions |-> JAbsent, steps |-> JAbsent,
     next_action |-> ""]

Thrown == [threw |-> TRUE, resp |-> NoResp]

Returned(r) == [threw |-> FALSE, resp |-> r]

trimToWords(text, maxWords) ==
    IF SplitLength(text) > maxWords
    THEN JoinFirst(text, maxWords) \o <<T("...")>>
    ELSE text

\* the phase of the response, were the backend's own phase kept
ReportedPhase(phase, parsed) ==
    IF parsed.phase.t = "str" /\ Len(parsed.phase.s) = 1 THEN parsed.phase.s[1].w ELSE phase

\* parsed.phase = <the requested phase>
EnforcedPhase(phase, parsed) == phase

\* parsed.next_action = "WAIT_FOR_USER" | "APPLY_STEPS"
EnforcedNextAction(phase, parsed) ==
    IF phase = COLLECT_INFO THEN WAIT_FOR_USER ELSE APPLY_STEPS

\* the two if-statements on parsed.questions (parsed.steps)
ClampList(v, max, default) ==
    LET v1 == IF Truthy(v) /\ HasLength(v) /\ LengthOf(v) > max THEN SliceJ(v, max) ELSE v
    IN  IF ~Truthy(v1) \/ (HasLength(v1) /\ LengthOf(v1) = 0)
        THEN JList(<<default>>)
        ELSE v1

\* The try block.  JSON.parse throws on text that is no JSON; reading a
\* property of null throws; a number, string or boolean at the top level
\* takes no property, so parsed.message stays undefined and the code throws
\* at the assignment (strict mode) or at text.split; a truthy message that
\* is no string throws at text.split.  An array at the top level takes the
\* properties like an object.
TryBody(phase, raw) ==
    IF raw.kind # "json" \/ raw.top \in {"null", "num", "str", "bool"} THEN Thrown
    ELSE LET parsed == raw
             message == IF ~Truthy(parsed.message) THEN JStr(DefaultMessage)
                        ELSE parsed.message
         IN  IF message.t # "str" THEN Thrown
             ELSE IF phase = COLLECT_INFO
             THEN Returned([phase |-> EnforcedPhase(phase, parsed),
                            next_action |-> EnforcedNextAction(phase, parsed),
                            message |-> trimToWords(message.s, CollectWords),
                            steps |-> JAbsent,
                            questions |-> ClampList(parsed.questions, MaxQuestions,
                                                    DefaultQuestion)])
             ELSE Returned([phase |-> EnforcedPhase(phase, parsed),
                            next_action |-> EnforcedNextAction(phase, parsed),
                            message |-> trimToWords(message.s, DiagnoseWords),
                            questions |-> JAbsent,
                            steps |-> ClampList(parsed.steps, MaxSteps, DefaultStep)])

\* the catch block, were its message always the fixed sentence
CatchBodyFixedMessage(phase, raw) ==
    IF phase = COLLECT_INFO
    THEN [phase |-> COLLECT_INFO, message |-> FallbackCollectMessage,
          questions |-> JList(FallbackQuestions), steps |-> JAbsent,
          next_action |-> WAIT_FOR_USER]
    ELSE [phase |-> DIAGNOSE, message |-> FallbackDiagnoseMessage,
          steps |-> JList(<<FallbackStep>>), questions |-> JAbsent,
          next_action |-> APPLY_STEPS]

\* The catch block
CatchBody(phase, raw) ==
    IF phase = COLLECT_INFO
    THEN [phase |-> COLLECT_INFO,
          message |-> IF RawText(raw) # <<>> THEN RawText(raw) ELSE FallbackCollectMessage,
          questions |-> JList(FallbackQuestions),
          steps |-> JAbsent,
          next_action |-> WAIT_FOR_USER]
    ELSE [phase |-> DIAGNOSE,
          message |-> IF RawText(raw) # <<>> THEN RawText(raw) ELSE FallbackDiagnoseMessage,
          steps |-> JList(<<FallbackStep>>),
          questions |-> JAbsent,
          next_action |-> APPLY_STEPS]

\* getTwoPhaseResponse, were there no catch block
ResponseUncaught(phase, backend) ==
    IF backend.threw THEN Thrown ELSE TryBody(phase, RawOf(backend.content))

\* backend: [threw |-> the create call rejected, content |-> what it returned]
getTwoPhaseResponse(phase, backend) ==
    IF backend.threw THEN Thrown
    ELSE LET raw == RawOf(backend.content)
             t == TryBody(phase, raw)
         IN  IF t.threw THEN Returned(CatchBody(phase, raw)) ELSE t

(***************************************************************************)
(* Backend answers                                                         *)
(***************************************************************************)
MaxListLen == 5

Phases == {COLLECT_INFO, DIAGNOSE}

\* "item<i>"
Item(i) == <<W("item", 4), W(ToString(i), 1)>>

ListOf(k) == JList([i \in 1..k |-> Item(i)])

ListValues ==
    {JAbsent, JNull, JStr(<<>>), JStr(Sent(<<"hi">>)), JStr(Sent(<<"help">>)), JNum(0),
     JNum(5), JBool(TRUE), JObj}
    \cup {ListOf(k) : k \in 0..MaxListLen}

MessageValues ==
    {JAbsent, JNull, JStr(<<>>), JStr(Sent(<<"hi">>)), JStr(Rep(CollectWords, "w")),
     JStr(<<SP>> \o Rep(CollectWords, "w")), JStr(Rep(CollectWords + 1, "w")),
     JStr(Rep(DiagnoseWords + 1, "w")), JNum(5), JBool(TRUE), JList(<<>>)}

\* what the backend says of its own phase and next action
SelfReports ==
    {<<JAbsent, JAbsent>>,
     <<JStr(<<T(COLLECT_INFO)>>), JStr(<<T(WAIT_FOR_USER)>>)>>,
     <<JStr(<<T(DIAGNOSE)>>), JStr(<<T(APPLY_STEPS)>>)>>}

NotJson ==
    {Sent(<<"not", "json", "at", "all">>), Rep(CollectWords + 1, "w"),
     Rep(DiagnoseWords + 1, "w"), <<SP>>}

Contents ==
    {EmptyContent}
    \cup {TextContent(t) : t \in NotJson}
    \cup {TopContent(k) : k \in {"arr", "null", "num", "str", "bool"}}
    \cup {ObjectContent(m, q, s, pa[1], pa[2]) :
             m \in MessageValues, q \in ListValues, s \in ListValues, pa \in SelfReports}

(***************************************************************************)
(* Chat turns: what the clients send and what the backend answers          *)
(***************************************************************************)
Reqs == 1..NumReqs

ConvIds == 1..MaxConvs

Tickets == {1}

\* history.length as the client sends it: below, next to and at MinHistory
HistLens == {0, 1, 2}

ChatMessages == {MsgHi, MsgLinux, MsgLong, MsgMacScreen}

\* not JSON
ContentText == TextContent(Sent(<<"not", "json", "at", "all">>))

\* an object that calls itself DIAGNOSE, with too many entries in both lists
ContentLong ==
    ObjectContent(JStr(Sent(<<"hi">>)), ListOf(3), ListOf(4), JStr(<<T(DIAGNOSE)>>),
                  JStr(<<T(APPLY_STEPS)>>))

\* an object whose questions and steps are no lists
ContentOdd == ObjectContent(JStr(Sent(<<"hi">>)), JNum(5), JBool(TRUE), JAbsent, JAbsent)

ChatContents == {ContentText, ContentLong, ContentOdd}

(***************************************************************************)
(* ServiceNowClient: the priority and state mappings.  A mapping is an      *)
(* object literal read with mapping[key] || default: a key the literal does *)
(* not hold is looked up in Object.prototype, whose properties are          *)
(* functions or objects, which are truthy.                                  *)
(***************************************************************************)
\* a string result
MStr(x) == [t |-> "str", s |-> x]

\* the property of Object.prototype with that name, which is no string
MInherited(k) == [t |-> "inherited", s |-> k]

NoValue == [t |-> "none", s |-> ""]

\* names of properties of Object.prototype
PrototypeKeys == {"constructor", "toString", "valueOf", "hasOwnProperty", "__proto__"}

\* mapping[key] || default, where every own value is a non-empty string
Lookup(mapping, key, default) ==
    IF key \in DOMAIN mapping THEN MStr(mapping[key])
    ELSE IF key \in PrototypeKeys THEN MInherited(key)
    ELSE MStr(default)

mapLocalPriorityToSn(priority) ==
    Lookup([low |-> "4", medium |-> "3", high |-> "2", urgent |-> "1"], priority, "3")

mapSnPriorityToLocal(priority) ==
    Lookup("1" :> "urgent" @@ "2" :> "high" @@ "3" :> "medium" @@ "4" :> "low"
           @@ "5" :> "low", priority, "medium")

mapLocalStatusToSnState(status) ==
    Lookup([open |-> "1", in_progress |-> "2", pending |-> "3", resolved |-> "4",
            closed |-> "5"], status, "1")

mapSnStateToLocalStatus(state) ==
    Lookup("1" :> "open" @@ "2" :> "in_progress" @@ "3" :> "pending" @@ "4" :> "resolved"
           @@ "5" :> "closed" @@ "6" :> "closed", state, "open")

LocalPriorities == {"low", "medium", "high", "urgent"}

LocalStatuses == {"open", "in_progress", "pending", "resolved", "closed"}

SnCodes == {"0", "1", "2", "3", "4", "5", "6", "7"}

\* strings that none of the four literals holds
UnknownKeys == {"", "critical", "Low", "undefined"} \cup PrototypeKeys

MappingArgs == LocalPriorities \cup LocalStatuses \cup SnCodes \cup UnknownKeys

MappingNames ==
    {"mapLocalPriorityToSn", "mapSnPriorityToLocal", "mapLocalStatusToSnState",
     "mapSnStateToLocalStatus"}

\* the mapping of that name applied to a string
ApplyMapping(fn, arg) ==
    CASE fn = "mapLocalPriorityToSn" -> mapLocalPriorityToSn(arg)
      [] fn = "mapSnPriorityToLocal" -> mapSnPriorityToLocal(arg)
      [] fn = "mapLocalStatusToSnState" -> mapLocalStatusToSnState(arg)
      [] OTHER -> mapSnStateToLocalStatus(arg)

\* the mapping of the other direction
InverseName(fn) ==
    CASE fn = "mapLocalPriorityToSn" -> "mapSnPriorityToLocal"
      [] fn = "mapSnPriorityToLocal" -> "mapLocalPriorityToSn"
      [] fn = "mapLocalStatusToSnState" -> "mapSnStateToLocalStatus"
      [] OTHER -> "mapLocalStatusToSnState"

\* the string JavaScript makes of a value used as a property name: that of
\* a function or an object is held by none of the literals
KeyOf(v) == IF v.t = "str" THEN v.s ELSE ""

(***************************************************************************)
(* getTwoPhaseResponse, up to the backend call: the messages of the        *)
(* request.  A history entry is [role, content].                           *)
(***************************************************************************)
HistoryWindow == 6

HistoryCap == 300

LatestCap == 500

\* the prompt of the phase; its text is not looked into
getSystemPrompt(phase) == <<T("system"), SP, T(phase)>>

\* chatHistory.slice(-6), were it slice(0, 6)
FirstHistory(chatHistory) ==
    SubSeq(chatHistory, 1,
           IF Len(chatHistory) > HistoryWindow THEN HistoryWindow ELSE Len(chatHistory))

\* chatHistory.slice(-6)
recentHistory(chatHistory) ==
    SubSeq(chatHistory,
           IF Len(chatHistory) > HistoryWindow THEN Len(chatHistory) - HistoryWindow + 1
           ELSE 1,
           Len(chatHistory))

\* the messages array passed to openai.chat.completions.create
RequestMessages(phase, chatHistory, latestMessage) ==
    LET recent == recentHistory(chatHistory)
    IN  <<[role |-> "system", content |-> getSystemPrompt(phase)]>>
        \o [i \in DOMAIN recent |->
               [role |-> recent[i].role, content |-> Slice(recent[i].content, HistoryCap)]]
        \o <<[role |-> "user", content |-> Slice(latestMessage, LatestCap)]>>

MaxHistory == 7

\* 501 characters
TextOver300 == Rep(2, "blob")

\* 752 characters
TextOver500 == Rep(3, "blob")

HistoryEntries ==
    {[role |-> "user", content |-> MsgHi],
     [role |-> "assistant", content |-> TextOver300],
     [role |-> "user", content |-> MsgLong]}

Histories == UNION {[1..k -> HistoryEntries] : k \in 0..MaxHistory}

LatestMessages == {MsgHi, TextOver500}

(***************************************************************************)
(* ServiceNowClient.request: the retry loop.  The outcome of one fetch     *)
(* attempt is an OK response whose body was read, a response with status   *)
(* 429, one with a status of 500 or more, one with another non-OK status,  *)
(* or an error thrown by fetch or by the reading of the body.              *)
(***************************************************************************)
DefaultRetries == 3

MaxRetries == 3

Outcomes == {"ok", "s429", "s500", "s400", "threw"}

Running == [kind |-> "running", error |-> ""]

Throws(error) == [kind |-> "threw", error |-> error]

\* the body of the for loop, were every response but 429 returned
LoopPassReturnsAny(attempt, retries, outcome) ==
    IF outcome = "s429" THEN Running
    ELSE IF outcome = "threw" /\ attempt = retries - 1 THEN Throws("transport")
    ELSE IF outcome = "threw" THEN Running
    ELSE [kind |-> "returned", error |-> ""]

\* the body of the for loop on the outcome of its fetch: Running is the next
\* pass (continue, or an error that the catch block does not throw again)
LoopPass(attempt, retries, outcome) ==
    LET thrown ==
            CASE outcome = "threw" -> "transport"
              [] outcome = "s400" -> "ServiceNow API error"
              [] outcome = "s500" -> "ServiceNow API error"
              [] OTHER -> ""
    IN  CASE outcome = "s429" -> Running
          [] outcome = "s500" /\ attempt < retries - 1 -> Running
          [] thrown # "" -> IF attempt = retries - 1 THEN Throws(thrown) ELSE Running
          [] OTHER -> [kind |-> "returned", error |-> ""]

(***************************************************************************)
(* Tickets and ServiceNow incidents.  A ticket's id is its place in        *)
(* MemStorage.tickets, an incident's sys_id and number its place in the    *)
(* incident table; snSysId 0 is null.  An incident tells the ticket it was *)
(* created from (0: none) and whether createIncident returned it.          *)
(***************************************************************************)
NumSyncReqs == 2

MaxSyncs == 3

MaxIncidents == 2

SyncReqs == 1..NumSyncReqs

TicketIds == 1..(1 + MaxIncidents)

NoTicket == [exists |-> FALSE, snSysId |-> 0, snNumber |-> 0, snSyncStatus |-> "null"]

\* a ticket made by POST /api/tickets
LocalTicket == [NoTicket EXCEPT !.exists = TRUE]

\* getTicketBySnSysId(snSysId): the ids of the matches
getTicketBySnSysId(tks, snSysId) ==
    {t \in DOMAIN tks : tks[t].exists /\ tks[t].snSysId = snSysId}

\* createTicket({..., snSysId, snNumber, snSyncStatus: "ok"}) at the next id
createTicket(tks, snSysId, snNumber) ==
    LET id == Cardinality({t \in DOMAIN tks : tks[t].exists}) + 1
    IN  [tks EXCEPT ![id] = [exists |-> TRUE, snSysId |-> snSysId, snNumber |-> snNumber,
                             snSyncStatus |-> "ok"]]

\* updateTicket(id, updates): { ...ticket, ...updates }; no effect on a
\* missing id
updateTicket(tks, id, updates) ==
    IF tks[id].exists
    THEN [tks EXCEPT ![id] =
             [f \in DOMAIN tks[id] |-> IF f \in DOMAIN updates THEN updates[f] ELSE tks[id][f]]]
    ELSE tks

\* the for loop of POST /api/sn/sync/pull over the incidents listed
RECURSIVE PullLoop(_, _)
PullLoop(tks, list) ==
    IF list = <<>> THEN tks
    ELSE PullLoop(IF getTicketBySnSysId(tks, Head(list)) # {} THEN tks
                  ELSE createTicket(tks, Head(list), Head(list)),
                  Tail(list))

IdleSync == [pc |-> "idle", ticket |-> 0, sys |-> 0, list |-> <<>>]

NoSyncRes == [status |-> 0, ticket |-> 0, list |-> <<>>]

(***************************************************************************)
(* State                                                                   *)
(***************************************************************************)
VARIABLES
    conversations,          \* MemStorage.conversations: id -> Conversation
    conversationMessages,   \* MemStorage.conversationMessages, in insertion order
    nextId,                 \* the conversations created so far have ids 1..nextId
    req,                    \* the chat requests in flight: position and local variables
    res,                    \* the chat response sent last, with the locals of its turn
    nTurns,                 \* the chat requests started so far
    firstSent,              \* history: the first message sent in each conversation
    xInfo, xMsgs,           \* SpecExtract: the folded record, the messages folded
    nPhase, nContent, nOut, \* SpecNormalize: requested phase, backend text, result
    mFn, mArg, mOut, mBack, \* SpecMapping: mapping applied, its argument, result, result mapped back
    bPhase, bHistory, bLatest, bMessages, \* SpecBuild: phase, chatHistory, latestMessage, messages sent
    qRetries, qLog, qEnd,   \* SpecRequest: retries, the outcomes of the fetches so far, how the call ended
    tickets,                \* MemStorage.tickets: id -> Ticket
    incidents,              \* the incident table of ServiceNow
    sync,                   \* the ServiceNow requests in flight
    syncRes,                \* the response of a ServiceNow route sent last
    nSyncs                  \* the ServiceNow requests started so far

vars ==
    <<conversations, conversationMessages, nextId, req, res, nTurns, firstSent, xInfo,
      xMsgs, nPhase, nContent, nOut, mFn, mArg, mOut, mBack, bPhase, bHistory, bLatest,
      bMessages, qRetries, qLog, qEnd, tickets, incidents, sync, syncRes, nSyncs>>

chatVars == <<conversations, conversationMessages, nextId, req, res, nTurns, firstSent>>

extractVars == <<xInfo, xMsgs>>

normalizeVars == <<nPhase, nContent, nOut>>

mapVars == <<mFn, mArg, mOut, mBack>>

buildVars == <<bPhase, bHistory, bLatest, bMessages>>

\* the variables of the specifications on single functions and clients
requestVars == <<qRetries, qLog, qEnd>>

syncVars == <<tickets, incidents, sync, syncRes, nSyncs>>

sideVars == <<buildVars, requestVars, syncVars>>

coreVars == <<chatVars, extractVars, normalizeVars, mapVars>>

\* updatedAt is counted in the handler runs that wrote the record: the clock
\* of a later run reads later
NoConversation ==
    [exists |-> FALSE, ticketId |-> 0, phase |-> COLLECT_INFO, collectedInfo |-> NullInfo,
     updatedAt |-> 0]

\* conv is conversation.id; snapPhase and snapInfo are conversation.phase and
\* conversation.collectedInfo as the handler read them; calls counts the
\* backend calls of the turn
IdleReq ==
    [pc |-> "idle", route |-> "", conv |-> 0, message |-> <<>>, histLen |-> 0,
     snapPhase |-> COLLECT_INFO, snapInfo |-> NullInfo, currentPhase |-> COLLECT_INFO,
     collectedInfo |-> NullInfo, calls |-> 0]

\* status 0: no response sent yet; turn: the locals of the turn that sent it
NoRes == [status |-> 0, turn |-> IdleReq, raw |-> EmptyContent, structured |-> NoResp]

NoOut == [done |-> FALSE, threw |-> FALSE, resp |-> NoResp]

IdleChat ==
    /\ conversations = [c \in ConvIds |-> NoConversation]
    /\ conversationMessages = <<>>
    /\ nextId = 0
    /\ req = [r \in Reqs |-> IdleReq]
    /\ res = NoRes
    /\ nTurns = 0
    /\ firstSent = [c \in ConvIds |-> <<>>]

IdleExtract == xInfo = NullInfo /\ xMsgs = <<>>

IdleNormalize == nPhase = COLLECT_INFO /\ nContent = EmptyContent /\ nOut = NoOut

IdleMapping == mFn = "" /\ mArg = "" /\ mOut = NoValue /\ mBack = NoValue

IdleBuild ==
    bPhase = COLLECT_INFO /\ bHistory = <<>> /\ bLatest = <<>> /\ bMessages = <<>>

IdleRequest == qRetries = 0 /\ qLog = <<>> /\ qEnd = Running

IdleTickets ==
    /\ tickets = [t \in TicketIds |-> NoTicket]
    /\ incidents = <<>>
    /\ sync = [r \in SyncReqs |-> IdleSync]
    /\ syncRes = NoSyncRes
    /\ nSyncs = 0

IdleSide == IdleBuild /\ IdleRequest /\ IdleTickets

IdleCore == IdleChat /\ IdleExtract /\ IdleNormalize /\ IdleMapping

(***************************************************************************)
(* MemStorage                                                              *)
(***************************************************************************)
\* getConversation(id)
getConversation(id) == id \in 1..nextId /\ conversations[id].exists

\* getConversationByTicketId, were it to find nothing
NoneByTicketId(ticketId) == {}

\* getConversationByTicketId(ticketId): the ids of the matches; find() takes
\* the first in insertion order, which is the least id
ByTicketId(ticketId) ==
    {c \in 1..nextId : conversations[c].exists /\ conversations[c].ticketId = ticketId}

Least(S) == CHOOSE x \in S : \A y \in S : x <= y

\* createConversation({ticketId, phase: "COLLECT_INFO", collectedInfo: null})
createConversation(ticketId) ==
    [exists |-> TRUE, ticketId |-> ticketId, phase |-> COLLECT_INFO,
     collectedInfo |-> NullInfo, updatedAt |-> 0]

\* updateConversation, were it to write every stored conversation
UpdateEveryConversation(convs, id, phase, collectedInfo, now) ==
    [c \in DOMAIN convs |->
        IF convs[c].exists
        THEN [convs[c] EXCEPT !.phase = phase, !.collectedInfo = collectedInfo,
                              !.updatedAt = now]
        ELSE convs[c]]

\* updateConversation, were it to store the updates in place of the record
UpdateDropsFields(convs, id, phase, collectedInfo, now) ==
    IF convs[id].exists
    THEN [convs EXCEPT ![id] = [createConversation(0) EXCEPT
                                   !.phase = phase, !.collectedInfo = collectedInfo,
                                   !.updatedAt = now]]
    ELSE convs

\* updateConversation(id, {phase, collectedInfo}): no effect on a missing id
updateConversation(convs, id, phase, collectedInfo, now) ==
    IF convs[id].exists
    THEN [convs EXCEPT ![id].phase = phase, ![id].collectedInfo = collectedInfo,
                       ![id].updatedAt = now]
    ELSE convs

\* addConversationMessage on the conversation of the message: conv.updatedAt
TouchConversation(convs, id, now) ==
    IF convs[id].exists THEN [convs EXCEPT ![id].updatedAt = now] ELSE convs

\* addConversationMessage, were the new message put before the others
AddMessageInFront(msgs, msg) == <<msg>> \o msgs

\* addConversationMessage(msg)
addConversationMessage(msgs, msg) == Append(msgs, msg)

UserMessage(c, content) ==
    [conversationId |-> c, role |-> "user", content |-> content, structuredResponse |-> NoResp]

AssistantMessage(c, aiResponse) ==
    [conversationId |-> c, role |-> "assistant", content |-> aiResponse.message,
     structuredResponse |-> aiResponse]

\* getConversationMessages(conversationId)
getConversationMessages(msgs, c) == SelectSeq(msgs, LAMBDA m : m.conversationId = c)

(***************************************************************************)
(* The chat routes.  A handler runs without interruption up to its await   *)
(* of the backend and from there to its response: MemStorage's methods do  *)
(* no I/O.  The requests in flight are interchangeable, so a new request   *)
(* takes the least free place of req.                                      *)
(***************************************************************************)
MinHistory == 2

\* currentPhase after the if-statement on history.length and hasEnoughInfo
PhaseDecisionNoTurnCount(currentPhase, histLen, collectedInfo, message) ==
    IF currentPhase = COLLECT_INFO /\ hasEnoughInfo(collectedInfo, message)
    THEN DIAGNOSE ELSE currentPhase

PhaseDecision(currentPhase, histLen, collectedInfo, message) ==
    IF currentPhase = COLLECT_INFO /\ histLen >= MinHistory
       /\ hasEnoughInfo(collectedInfo, message)
    THEN DIAGNOSE ELSE currentPhase

\* the stored record after extractInfo(existing, message) ran on it in place
ExistingWrittenInPlace(existing, message) ==
    IF existing.isNull THEN existing ELSE extractInfo(existing, message)

\* the stored record after extractInfo(existing, message): extractInfo works
\* on the copy { ...existing }
ExistingAfterExtract(existing, message) == existing

\* from the loaded or created conversation to the await of the backend
TurnStart(r, route, c, created, ticketId, message, histLen) ==
    LET conversation == IF created THEN createConversation(ticketId) ELSE conversations[c]
        collectedInfo == extractInfo(conversation.collectedInfo, message)
        currentPhase == PhaseDecision(conversation.phase, histLen, collectedInfo, message)
    IN  /\ req[r].pc = "idle"
        /\ \A q \in Reqs : q < r => req[q].pc # "idle"
        /\ nTurns < MaxTurns
        /\ nTurns' = nTurns + 1
        /\ nextId' = IF created THEN c ELSE nextId
        /\ conversations' =
              [conversations EXCEPT ![c] =
                  [conversation EXCEPT
                      !.collectedInfo = ExistingAfterExtract(@, message)]]
        /\ req' = [req EXCEPT ![r] =
              [pc |-> "backend", route |-> route, conv |-> c, message |-> message,
               histLen |-> histLen, snapPhase |-> conversation.phase,
               snapInfo |-> conversation.collectedInfo, currentPhase |-> currentPhase,
               collectedInfo |-> collectedInfo, calls |-> 1]]
        /\ firstSent' = IF created THEN [firstSent EXCEPT ![c] = message] ELSE firstSent
        /\ UNCHANGED <<conversationMessages, res, extractVars, normalizeVars, mapVars, sideVars>>

\* POST /api/copilot/chat {message, history, conversationId}; conversationId 0
\* is a request without one
CopilotChat(r, conversationId, message, histLen) ==
    LET found == getConversation(conversationId)
    IN  /\ found \/ nextId < MaxConvs
        /\ TurnStart(r, "copilot", IF found THEN conversationId ELSE nextId + 1, ~found,
                     0, message, histLen)

\* POST /api/tickets/:id/chat {message, history}
TicketChat(r, ticketId, message, histLen) ==
    LET found == ByTicketId(ticketId) # {}
    IN  /\ found \/ nextId < MaxConvs
        /\ TurnStart(r, "ticket", IF found THEN Least(ByTicketId(ticketId)) ELSE nextId + 1,
                     ~found, ticketId, message, histLen)

\* the backend answers: normalize, persist phase and collectedInfo, append the
\* two messages, respond 200
BackendReturns(r, content) ==
    LET out == getTwoPhaseResponse(req[r].currentPhase, [threw |-> FALSE, content |-> content])
        c == req[r].conv
        now == conversations[c].updatedAt + 1
    IN  /\ req[r].pc = "backend"
        /\ ~out.threw
        /\ conversations' =
              TouchConversation(
                  TouchConversation(
                      updateConversation(conversations, c, req[r].currentPhase,
                                         req[r].collectedInfo, now),
                      c, now),
                  c, now)
        /\ conversationMessages' =
              addConversationMessage(
                  addConversationMessage(conversationMessages, UserMessage(c, req[r].message)),
                  AssistantMessage(c, out.resp))
        /\ res' = [status |-> 200, turn |-> req[r], raw |-> content, structured |-> out.resp]
        /\ req' = [req EXCEPT ![r] = IdleReq]
        /\ UNCHANGED <<nextId, nTurns, firstSent, extractVars, normalizeVars, mapVars,
                       sideVars>>

\* the backend call rejects: the route's catch responds 500
BackendThrows(r) ==
    LET out == getTwoPhaseResponse(req[r].currentPhase, [threw |-> TRUE, content |-> EmptyContent])
    IN  /\ req[r].pc = "backend"
        /\ out.threw
        /\ res' = [status |-> 500, turn |-> req[r], raw |-> EmptyContent, structured |-> NoResp]
        /\ req' = [req EXCEPT ![r] = IdleReq]
        /\ UNCHANGED <<conversations, conversationMessages, nextId, nTurns, firstSent,
                       extractVars, normalizeVars, mapVars, sideVars>>

\* DELETE /api/conversations/:id on a stored conversation: deleteConversation
DeleteConversation(c) ==
    /\ getConversation(c)
    /\ conversationMessages' = SelectSeq(conversationMessages, LAMBDA m : m.conversationId # c)
    /\ conversations' = [conversations EXCEPT ![c] = NoConversation]
    /\ UNCHANGED <<nextId, req, res, nTurns, firstSent, extractVars, normalizeVars,
                   mapVars, sideVars>>

Init == IdleCore /\ IdleSide

Next ==
    \/ \E r \in Reqs, c \in {0} \cup {i \in ConvIds : getConversation(i)},
          m \in ChatMessages, h \in HistLens :
          CopilotChat(r, c, m, h)
    \/ \E r \in Reqs, t \in Tickets, m \in ChatMessages, h \in HistLens :
          TicketChat(r, t, m, h)
    \/ \E r \in Reqs, content \in ChatContents : BackendReturns(r, content)
    \/ \E r \in Reqs : BackendThrows(r)
    \/ \E c \in ConvIds : DeleteConversation(c)

Spec == Init /\ [][Next]_vars

(***************************************************************************)
(* Claims on the chat turns (Spec)                                         *)
(***************************************************************************)
\* the step is the response of request r: 200 after a backend answer, 500
\* after a backend failure
Responds(r, status) ==
    /\ req[r].pc = "backend"
    /\ req'[r].pc = "idle"
    /\ res'.status = status
    /\ res'.turn = req[r]

IsList(v, lo, hi) == v.t = "list" /\ Len(v.l) >= lo /\ Len(v.l) <= hi

\* the phases of the assistant replies logged for conversation c never go
\* from DIAGNOSE back to COLLECT_INFO
RepliesMonotone(c) ==
    LET log == getConversationMessages(conversationMessages, c)
    IN  \A i, j \in DOMAIN log :
            (/\ i < j
             /\ log[i].role = "assistant"
             /\ log[j].role = "assistant"
             /\ log[i].structuredResponse.phase = DIAGNOSE)
            => log[j].structuredResponse.phase = DIAGNOSE

\* C1: once a turn on a conversation has answered in DIAGNOSE no later turn
\* on it answers in COLLECT_INFO, and the stored phase of a conversation
\* never goes from DIAGNOSE back to COLLECT_INFO.
C1_PhaseMonotonicity ==
    [][\A c \in ConvIds :
          /\ (conversations[c].exists /\ conversations'[c].exists
              /\ conversations[c].phase = DIAGNOSE)
             => conversations'[c].phase = DIAGNOSE
          /\ RepliesMonotone(c)']_vars

C6_FailedTurnLeavesConversation ==
    [][/\ \A c \in ConvIds :
             (/\ conversations[c].exists
              /\ conversations'[c].exists
              /\ \/ conversations'[c] # conversations[c]
                 \/ getConversationMessages(conversationMessages, c)'
                        # getConversationMessages(conversationMessages, c))
             => \E r \in Reqs : Responds(r, 200) /\ req[r].conv = c
       /\ \A r \in Reqs :
             Responds(r, 500)
             => /\ conversations' = conversations
                /\ conversationMessages' = conversationMessages
                /\ req[r].calls = 1
       /\ \A r \in Reqs : req'[r].calls <= 1]_vars

\* a turn on a conversation that had collectedInfo failed; its fold and its
\* phase decision differ from what is stored, and the stored values are the
\* ones the turn read
C6_Witness ==
    /\ res.status = 500
    /\ ~res.turn.snapInfo.isNull
    /\ res.turn.collectedInfo # res.turn.snapInfo
    /\ res.turn.currentPhase # res.turn.snapPhase
    /\ conversations[res.turn.conv].exists
    /\ conversations[res.turn.conv].collectedInfo = res.turn.snapInfo
    /\ conversations[res.turn.conv].phase = res.turn.snapPhase

\* C7: the phase and next_action of a response are those of the requested
\* phase; a backend answer that differs only in the phase and next_action
\* it reports gives the same phase and next_action; the phase that is
\* stored is the requested one.
C7_DerivedPhaseAndAction ==
    [][\A r \in Reqs :
          Responds(r, 200)
          => /\ res'.structured.phase = req[r].currentPhase
             /\ res'.structured.next_action =
                   (IF req[r].currentPhase = COLLECT_INFO THEN WAIT_FOR_USER
                    ELSE APPLY_STEPS)
             /\ \A pa \in SelfReports :
                   LET twin == [res'.raw EXCEPT !.phase = pa[1], !.next_action = pa[2]]
                       other == getTwoPhaseResponse(req[r].currentPhase,
                                    [threw |-> FALSE, content |-> twin]).resp
                   IN  /\ other.phase = res'.structured.phase
                       /\ other.next_action = res'.structured.next_action
             /\ conversations'[req[r].conv].exists
                => conversations'[req[r].conv].phase = req[r].currentPhase]_vars

\* the backend reported the other phase and the other action than the
\* requested ones
C7_Witness ==
    /\ res.status = 200
    /\ res.raw.kind = "json"
    /\ res.raw.phase.t = "str"
    /\ res.raw.phase.s # <<T(res.structured.phase)>>
    /\ res.raw.next_action.s # <<T(res.structured.next_action)>>
    /\ conversations[res.turn.conv].exists
    /\ conversations[res.turn.conv].phase = res.turn.currentPhase

\* one turn run on the stored phase and collectedInfo
TurnResult(stored, turn) ==
    LET collectedInfo == extractInfo(stored.collectedInfo, turn.message)
    IN  [phase |-> PhaseDecision(stored.phase, turn.histLen, collectedInfo, turn.message),
         collectedInfo |-> collectedInfo]

Stored(convs, c) == [phase |-> convs[c].phase, collectedInfo |-> convs[c].collectedInfo]

\* C8: two turns a and b on one conversation that read the same stored
\* phase and collectedInfo, a persisting first: what b persists is the result
\* of the two turns run one after the other, in one of the two orders.
C8_OverlappingTurnsSerialize ==
    [][\A r \in Reqs :
          LET a == res.turn
              b == req[r]
              c == b.conv
              read == [phase |-> b.snapPhase, collectedInfo |-> b.snapInfo]
          IN  (/\ Responds(r, 200)
               /\ res.status = 200
               /\ a.conv = c
               /\ conversations[c].exists
               /\ a.snapPhase = b.snapPhase
               /\ a.snapInfo = b.snapInfo
               /\ Stored(conversations, c)
                     = [phase |-> a.currentPhase, collectedInfo |-> a.collectedInfo])
              => Stored(conversations', c)
                    \in {TurnResult(TurnResult(read, a), b),
                         TurnResult(TurnResult(read, b), a)}]_vars

(***************************************************************************)
(* SpecExtract: a conversation's collectedInfo under successive folds      *)
(* collectedInfo = extractInfo(collectedInfo, message); xMsgs is the       *)
(* sequence of messages folded so far.                                     *)
(***************************************************************************)
InitExtract == IdleCore /\ IdleSide

Fold(m) ==
    /\ Len(xMsgs) < MaxFolds
    /\ xInfo' = extractInfo(xInfo, m)
    /\ xMsgs' = Append(xMsgs, m)
    /\ UNCHANGED <<normalizeVars, chatVars, mapVars, sideVars>>

NextExtract == \E m \in FoldMessages : Fold(m)

SpecExtract == InitExtract /\ [][NextExtract]_vars

\* C9: once the os slot (the deviceType slot) is set, no later extractInfo
\* call changes it.
C9_SlotFirstWriterWins ==
    [][/\ (xInfo.os # <<>> => xInfo'.os = xInfo.os)
       /\ (xInfo.deviceType # <<>> => xInfo'.deviceType = xInfo.deviceType)]_vars

\* windows was named first, a message naming another system was folded
\* later, and the slot still holds the windows match
C9_Witness ==
    /\ Len(xMsgs) >= 2
    /\ xMsgs[1] = MsgWinLaptop
    /\ xMsgs[Len(xMsgs)] \in {MsgLinux, MsgMacOsPc}
    /\ xInfo.os = <<T("windows"), SP>>

(***************************************************************************)
(* SpecNormalize: getTwoPhaseResponse on every backend answer, for both    *)
(* requested phases.                                                       *)
(***************************************************************************)
InitNormalize ==
    /\ nPhase \in Phases
    /\ nContent \in Contents
    /\ nOut = NoOut
    /\ IdleExtract
    /\ IdleChat
    /\ IdleMapping
    /\ IdleSide

Respond ==
    /\ ~nOut.done
    /\ LET r == getTwoPhaseResponse(nPhase, [threw |-> FALSE, content |-> nContent])
       IN  nOut' = [done |-> TRUE, threw |-> r.threw, resp |-> r.resp]
    /\ UNCHANGED <<nPhase, nContent, extractVars, chatVars, mapVars, sideVars>>

NextNormalize == Respond

SpecNormalize == InitNormalize /\ [][NextNormalize]_vars

(***************************************************************************)
(* Claims on getTwoPhaseResponse (SpecNormalize)                           *)
(***************************************************************************)
\* the raw text parses to a JSON object
ParsesToObject(content) == RawOf(content).kind = "json" /\ RawOf(content).top = "obj"

\* C2: a COLLECT_INFO response has no steps and a list of 1 or 2 questions,
\* a DIAGNOSE response has no questions and a list of 1 to 3 steps; an empty
\* or missing list of a parsed object gives exactly the one default entry.
C2_ShapeExclusivity ==
    nOut.done
    => /\ nOut.resp.phase = COLLECT_INFO
          => /\ nOut.resp.steps.t = "absent"
             /\ IsList(nOut.resp.questions, 1, MaxQuestions)
       /\ nOut.resp.phase = DIAGNOSE
          => /\ nOut.resp.questions.t = "absent"
             /\ IsList(nOut.resp.steps, 1, MaxSteps)
       /\ (/\ ~TryBody(nPhase, RawOf(nContent)).threw
           /\ nPhase = COLLECT_INFO
           /\ nContent.questions \in {JAbsent, JList(<<>>)})
          => nOut.resp.questions = JList(<<DefaultQuestion>>)
       /\ (/\ ~TryBody(nPhase, RawOf(nContent)).threw
           /\ nPhase = DIAGNOSE
           /\ nContent.steps \in {JAbsent, JList(<<>>)})
          => nOut.resp.steps = JList(<<DefaultStep>>)

\* C3: the message of a response has at most 60 words in COLLECT_INFO and at
\* most 80 in DIAGNOSE, on the parsed path and on the fallback path.
C3_MessageBudget ==
    nOut.done
    => WordCount(nOut.resp.message)
          <= (IF nPhase = COLLECT_INFO THEN CollectWords ELSE DiagnoseWords)

\* C4: for every text the backend returns getTwoPhaseResponse does not throw
\* and returns the requested phase, a message, the list of the phase with at
\* least one entry, and the next action.
C4_FallbackTotality ==
    nOut.done
    => /\ ~nOut.threw
       /\ nOut.resp.phase = nPhase
       /\ nOut.resp.message # <<>>
       /\ nOut.resp.next_action \in {WAIT_FOR_USER, APPLY_STEPS}
       /\ IF nPhase = COLLECT_INFO
          THEN nOut.resp.questions.t = "list" /\ Len(nOut.resp.questions.l) >= 1
          ELSE nOut.resp.steps.t = "list" /\ Len(nOut.resp.steps.l) >= 1

\* C10: from a JSON object with more than 2 questions, COLLECT_INFO returns
\* the first 2 in order and no steps; with more than 3 steps, DIAGNOSE
\* returns the first 3 in order and no questions; a list of 1 or 2 questions
\* (1 to 3 steps) is returned as it is.
C10_ClampKeepsPrefix ==
    (nOut.done /\ ParsesToObject(nContent))
    => /\ (nPhase = COLLECT_INFO /\ nContent.questions.t = "list"
           /\ Len(nContent.questions.l) >= 1)
          => /\ nOut.resp.steps.t = "absent"
             /\ nOut.resp.questions =
                   (IF Len(nContent.questions.l) > MaxQuestions
                    THEN JList(SubSeq(nContent.questions.l, 1, MaxQuestions))
                    ELSE nContent.questions)
       /\ (nPhase = DIAGNOSE /\ nContent.steps.t = "list" /\ Len(nContent.steps.l) >= 1)
          => /\ nOut.resp.questions.t = "absent"
             /\ nOut.resp.steps =
                   (IF Len(nContent.steps.l) > MaxSteps
                    THEN JList(SubSeq(nContent.steps.l, 1, MaxSteps))
                    ELSE nContent.steps)

\* C11: a backend text that JSON.parse rejects gives the requested phase, the
\* raw text as message, the two fixed questions (COLLECT_INFO) or the one
\* fixed step (DIAGNOSE) and the action of the phase; an empty backend text
\* gives a fixed sentence as message and one fixed question or step.
C11_FallbackContent ==
    nOut.done
    => /\ nContent.kind = "text"
          => nOut.resp =
                [phase |-> nPhase,
                 message |-> nContent.body,
                 questions |-> IF nPhase = COLLECT_INFO THEN JList(FallbackQuestions)
                               ELSE JAbsent,
                 steps |-> IF nPhase = DIAGNOSE THEN JList(<<FallbackStep>>) ELSE JAbsent,
                 next_action |-> IF nPhase = COLLECT_INFO THEN WAIT_FOR_USER
                                 ELSE APPLY_STEPS]
       /\ nContent.kind = "empty"
          => nOut.resp =
                [phase |-> nPhase,
                 message |-> DefaultMessage,
                 questions |-> IF nPhase = COLLECT_INFO THEN JList(<<DefaultQuestion>>)
                               ELSE JAbsent,
                 steps |-> IF nPhase = DIAGNOSE THEN JList(<<DefaultStep>>) ELSE JAbsent,
                 next_action |-> IF nPhase = COLLECT_INFO THEN WAIT_FOR_USER
                                 ELSE APPLY_STEPS]

\* "not json at all" in DIAGNOSE was answered with that text, the one fixed
\* step and APPLY_STEPS
C11_Witness ==
    /\ nOut.done
    /\ nPhase = DIAGNOSE
    /\ nContent = TextContent(Sent(<<"not", "json", "at", "all">>))
    /\ nOut.resp.message = Sent(<<"not", "json", "at", "all">>)
    /\ nOut.resp.steps = JList(<<FallbackStep>>)
    /\ nOut.resp.next_action = APPLY_STEPS

\* C12: a successful turn answers in the phase it decided and persists that
\* phase; the turn that moves the conversation from COLLECT_INFO to DIAGNOSE
\* requests DIAGNOSE of the backend and answers with phase DIAGNOSE, a list
\* of 1 to 3 steps and no questions.
C12_AnswersInResultingPhase ==
    [][\A r \in Reqs :
          Responds(r, 200)
          => /\ res'.structured.phase = req[r].currentPhase
             /\ conversations'[req[r].conv].exists
                => conversations'[req[r].conv].phase = res'.structured.phase
             /\ (req[r].snapPhase = COLLECT_INFO /\ req[r].currentPhase = DIAGNOSE)
                => /\ res'.structured.phase = DIAGNOSE
                   /\ res'.structured.questions.t = "absent"
                   /\ IsList(res'.structured.steps, 1, MaxSteps)]_vars

\* the stored phase and collectedInfo a turn on c starts from: those of the
\* stored conversation, or of the one the turn creates
StartsFrom(c) ==
    IF conversations[c].exists THEN Stored(conversations, c)
    ELSE [phase |-> COLLECT_INFO, collectedInfo |-> NullInfo]

\* C13: a step of a chat turn on conversation a, at its start, its success
\* or its failure, changes no other conversation's phase, collectedInfo or
\* message log and no other turn in flight; what a turn decides depends only
\* on its own conversation's stored state, its message and its turn count,
\* and what it answers only on that decision and the backend's text.
C13_ConversationsIndependent ==
    [][\A r \in Reqs :
          req'[r] # req[r]
          => LET a == IF req[r].pc = "idle" THEN req'[r].conv ELSE req[r].conv
             IN  /\ \A b \in ConvIds \ {a} :
                       /\ conversations'[b] = conversations[b]
                       /\ getConversationMessages(conversationMessages, b)'
                             = getConversationMessages(conversationMessages, b)
                 /\ \A q \in Reqs \ {r} : req'[q] = req[q]
                 /\ req[r].pc = "idle"
                    => /\ req'[r].currentPhase = TurnResult(StartsFrom(a), req'[r]).phase
                       /\ req'[r].collectedInfo
                             = TurnResult(StartsFrom(a), req'[r]).collectedInfo
                 /\ Responds(r, 200)
                    => res'.structured
                          = getTwoPhaseResponse(req[r].currentPhase,
                                [threw |-> FALSE, content |-> res'.raw]).resp]_vars

\* a turn on one conversation succeeded while a turn on another stored
\* conversation was in flight
C13_Witness ==
    /\ res.status = 200
    /\ \E r \in Reqs :
          /\ req[r].pc = "backend"
          /\ req[r].conv # res.turn.conv
          /\ conversations[req[r].conv].exists
          /\ conversations[res.turn.conv].exists
          /\ conversations[res.turn.conv].collectedInfo = res.turn.collectedInfo
          /\ conversations[req[r].conv].collectedInfo = NullInfo

(***************************************************************************)
(* SpecMapping: each mapping of ServiceNowClient on each argument, and the *)
(* result mapped back by the mapping of the other direction.               *)
(***************************************************************************)
InitMapping ==
    /\ mFn \in MappingNames
    /\ mArg \in MappingArgs
    /\ mOut = NoValue
    /\ mBack = NoValue
    /\ IdleChat
    /\ IdleExtract
    /\ IdleNormalize
    /\ IdleSide

MapThere ==
    /\ mOut = NoValue
    /\ mOut' = ApplyMapping(mFn, mArg)
    /\ UNCHANGED <<mFn, mArg, mBack, chatVars, extractVars, normalizeVars, sideVars>>

MapBack ==
    /\ mOut # NoValue
    /\ mBack = NoValue
    /\ mBack' = ApplyMapping(InverseName(mFn), KeyOf(mOut))
    /\ UNCHANGED <<mFn, mArg, mOut, chatVars, extractVars, normalizeVars, sideVars>>

NextMapping == MapThere \/ MapBack

SpecMapping == InitMapping /\ [][NextMapping]_vars

\* the keys the literal of a mapping holds
OwnKeys(fn) ==
    CASE fn = "mapLocalPriorityToSn" -> LocalPriorities
      [] fn = "mapSnPriorityToLocal" -> {"1", "2", "3", "4", "5"}
      [] fn = "mapLocalStatusToSnState" -> LocalStatuses
      [] OTHER -> {"1", "2", "3", "4", "5", "6"}

DefaultOf(fn) ==
    CASE fn = "mapLocalPriorityToSn" -> "3"
      [] fn = "mapSnPriorityToLocal" -> "medium"
      [] fn = "mapLocalStatusToSnState" -> "1"
      [] OTHER -> "open"

\* C14: low, medium, high, urgent map to 4, 3, 2, 1; a local priority and a
\* local status mapped to ServiceNow and back are unchanged; an argument
\* that a mapping does not know gives the mapping's default.
C14_MappingRoundTrip ==
    /\ (mOut # NoValue /\ mFn = "mapLocalPriorityToSn" /\ mArg \in LocalPriorities)
       => mOut = MStr(CASE mArg = "low" -> "4" [] mArg = "medium" -> "3"
                        [] mArg = "high" -> "2" [] OTHER -> "1")
    /\ (mBack # NoValue /\ mFn = "mapLocalPriorityToSn" /\ mArg \in LocalPriorities)
       => mBack = MStr(mArg)
    /\ (mBack # NoValue /\ mFn = "mapLocalStatusToSnState" /\ mArg \in LocalStatuses)
       => mBack = MStr(mArg)
    /\ (mOut # NoValue /\ mArg \notin OwnKeys(mFn))
       => mOut = MStr(DefaultOf(mFn))

\* enough information as the rule states it, on the collectedInfo that holds
\* the latest message: both slots are known, or a message of at least 5
\* words was given, now or earlier (an earlier one left additionalContext)
EnoughAsStated(collectedInfo, message) ==
    \/ collectedInfo.deviceType # <<>> /\ collectedInfo.os # <<>>
    \/ WordCount(message) >= ContextWords
    \/ collectedInfo.additionalContext # <<>>

\* C15: the phase a turn chooses is DIAGNOSE exactly if the stored phase is
\* DIAGNOSE, or it is COLLECT_INFO, the turn count is at least 2 and enough
\* information holds: both slots known after the fold, or a message of at
\* least 5 words.  A short message that fills no slot causes no transition.
C15_ExactTransitionRule ==
    \A r \in Reqs :
        req[r].pc = "backend"
        => /\ req[r].currentPhase \in Phases
           /\ req[r].currentPhase = DIAGNOSE
              <=> \/ req[r].snapPhase = DIAGNOSE
                  \/ /\ req[r].snapPhase = COLLECT_INFO
                     /\ req[r].histLen >= MinHistory
                     /\ EnoughAsStated(req[r].collectedInfo, req[r].message)

\* C16: the turn count a turn decides with is the number of messages that
\* the log of its conversation holds when the turn starts.
C16_TurnCountIsLogLength ==
    [][\A r \in Reqs :
          (req[r].pc = "idle" /\ req'[r].pc = "backend")
          => req'[r].histLen
                = Len(getConversationMessages(conversationMessages, req'[r].conv))]_vars

\* the step folds the message that the step before it folded
FoldsAgain ==
    /\ Len(xMsgs) >= 1
    /\ Len(xMsgs') = Len(xMsgs) + 1
    /\ xMsgs'[Len(xMsgs')] = xMsgs[Len(xMsgs)]

\* C17: extractInfo(extractInfo(p, m), m) = extractInfo(p, m) in os,
\* deviceType, symptom and additionalContext: folding a message a second
\* time changes nothing.
C17_ExtractIdempotent ==
    [][FoldsAgain => xInfo' = xInfo]_vars

IsPrefix(a, b) == Len(a) <= Len(b) /\ SubSeq(b, 1, Len(a)) = a

\* every field set in a is set in b: os, deviceType and symptom with their
\* value, additionalContext as a prefix; b is null only if a is
Grows(a, b) ==
    /\ a.os # <<>> => b.os = a.os
    /\ a.deviceType # <<>> => b.deviceType = a.deviceType
    /\ a.symptom # <<>> => b.symptom = a.symptom
    /\ IsPrefix(a.additionalContext, b.additionalContext)
    /\ b.isNull => a.isNull

\* C18: the stored collectedInfo of a conversation only grows, and is not
\* null again once a turn has succeeded.
C18_CollectedInfoGrows ==
    [][\A c \in ConvIds :
          (conversations[c].exists /\ conversations'[c].exists)
          => Grows(conversations[c].collectedInfo, conversations'[c].collectedInfo)]_vars

C20_SymptomIsFirstUtterance ==
    \A c \in ConvIds :
        (conversations[c].exists /\ ~conversations[c].collectedInfo.isNull)
        => conversations[c].collectedInfo.symptom = Slice(firstSent[c], SymptomCap)
(***************************************************************************)
(* Claims on extractInfo's additionalContext (SpecExtract)                 *)
(***************************************************************************)
\* the entries of an additionalContext: the texts joined with " | "
Entries(ctx) ==
    IF ctx = <<>> THEN 0 ELSE Cardinality({i \in DOMAIN ctx : ctx[i].w = "|"}) + 1

\* C21: a folded message of at least 5 words is appended to
\* additionalContext, cut to 300 characters and joined with " | ", whatever
\* the slots hold; a message of fewer than 5 words leaves additionalContext
\* unchanged; the number of entries is the number of folded messages of at
\* least 5 words.
C21_ContextLogsLongMessages ==
    [][Len(xMsgs') = Len(xMsgs) + 1
       => LET m == xMsgs'[Len(xMsgs')]
              before == xInfo.additionalContext
              after == xInfo'.additionalContext
          IN  /\ WordCount(m) >= ContextWords
                 => after = (IF before # <<>> THEN before \o <<SP, T("|"), SP>> ELSE <<>>)
                            \o Slice(m, ContextCap)
              /\ WordCount(m) < ContextWords => after = before
              /\ Entries(after)
                    = Cardinality({i \in DOMAIN xMsgs' :
                                      WordCount(xMsgs'[i]) >= ContextWords})]_vars
(***************************************************************************)
(* SpecBuild: the request getTwoPhaseResponse sends, for every history of  *)
(* up to MaxHistory entries.                                               *)
(***************************************************************************)
InitBuild ==
    /\ bPhase \in Phases
    /\ bHistory \in Histories
    /\ bLatest \in LatestMessages
    /\ bMessages = <<>>
    /\ IdleCore
    /\ IdleRequest
    /\ IdleTickets

BuildRequest ==
    /\ bMessages = <<>>
    /\ bMessages' = RequestMessages(bPhase, bHistory, bLatest)
    /\ UNCHANGED <<bPhase, bHistory, bLatest, coreVars, requestVars, syncVars>>

NextBuild == BuildRequest

SpecBuild == InitBuild /\ [][NextBuild]_vars

\* C22: the request holds the system prompt, then the last 6 history
\* entries (all of them if there are fewer) in their order, each cut to 300
\* characters, then the latest message cut to 500 characters: at most 8
\* messages, and no entry older than the last 6.
C22_BoundedRequest ==
    bMessages # <<>>
    => LET n == Len(bHistory)
           k == IF n < HistoryWindow THEN n ELSE HistoryWindow
       IN  /\ Len(bMessages) = k + 2
           /\ Len(bMessages) <= HistoryWindow + 2
           /\ bMessages[1] = [role |-> "system", content |-> getSystemPrompt(bPhase)]
           /\ \A i \in 1..k :
                 /\ bMessages[1 + i].role = bHistory[n - k + i].role
                 /\ bMessages[1 + i].content = Slice(bHistory[n - k + i].content, HistoryCap)
                 /\ CharLen(bMessages[1 + i].content) <= HistoryCap
           /\ bMessages[k + 2].role = "user"
           /\ bMessages[k + 2].content = Slice(bLatest, LatestCap)
           /\ CharLen(bMessages[k + 2].content) <= LatestCap

\* a history of 7 entries whose oldest is unlike the second: 8 messages were
\* sent, the first entry sent is the second of the history, cut, and the
\* latest message was cut
C22_Witness ==
    /\ Len(bHistory) = HistoryWindow + 1
    /\ bHistory[1].content = MsgHi
    /\ bHistory[2].content = TextOver300
    /\ bLatest = TextOver500
    /\ Len(bMessages) = HistoryWindow + 2
    /\ CharLen(bMessages[2].content) = HistoryCap
    /\ CharLen(bMessages[HistoryWindow + 2].content) = LatestCap
(***************************************************************************)
(* Claims on the end of a chat turn and on the message log (Spec)          *)
(***************************************************************************)
\* C23: a chat turn makes at most one backend call; when the call completes
\* the turn ends in that step: with 200 and the structured response made
\* of the backend's text, whatever the text, or with 500 if the call threw;
\* a turn waiting for the backend can take either end.
C23_TurnEndsAfterBackend ==
    /\ [](\A r \in Reqs :
             req[r].pc = "backend"
             => /\ ENABLED BackendThrows(r)
                /\ \A content \in ChatContents : ENABLED BackendReturns(r, content))
    /\ [][\A r \in Reqs :
             /\ req'[r].calls <= 1
             /\ (req[r].pc = "backend" /\ req'[r] # req[r])
                => /\ req'[r].pc = "idle"
                   /\ req[r].calls = 1
                   /\ res'.turn = req[r]
                   /\ \/ /\ res'.status = 200
                         /\ res'.structured
                               = getTwoPhaseResponse(req[r].currentPhase,
                                     [threw |-> FALSE, content |-> res'.raw]).resp
                         /\ res'.structured.phase \in Phases
                         /\ res'.structured.message # <<>>
                      \/ /\ res'.status = 500
                         /\ res'.structured = NoResp]_vars

\* the backend returned text that is no JSON and the turn was answered 200,
\* after one backend call, with that text as message
C23_Witness ==
    /\ res.status = 200
    /\ res.raw = ContentText
    /\ res.turn.calls = 1
    /\ res.structured.message = ContentText.body
    /\ \A r \in Reqs : req[r].pc = "idle"
\* C24: the log of a conversation is a sequence of pairs, a user message
\* followed by an assistant message; a turn that succeeds appends its user
\* message and the reply made for it to the end of the log, so the pairs
\* stand in commit order and the log grows by 2 with each successful turn;
\* the start of a turn and a failed turn add nothing.  Overlapping turns
\* are included.
C24_LogIsPairs ==
    /\ [](\A c \in ConvIds :
             LET log == getConversationMessages(conversationMessages, c)
             IN  /\ Len(log) % 2 = 0
                 /\ \A i \in DOMAIN log :
                       log[i].role = (IF i % 2 = 1 THEN "user" ELSE "assistant"))
    /\ [][\A r \in Reqs :
             LET c == req[r].conv
                 log == getConversationMessages(conversationMessages, c)
             IN  /\ Responds(r, 200)
                    => /\ getConversationMessages(conversationMessages', c)
                             = log \o << UserMessage(c, req[r].message),
                                         AssistantMessage(c, res'.structured) >>
                       /\ res'.structured
                             = getTwoPhaseResponse(req[r].currentPhase,
                                   [threw |-> FALSE, content |-> res'.raw]).resp
                 /\ Responds(r, 500) => conversationMessages' = conversationMessages
                 /\ (req[r].pc = "idle" /\ req'[r].pc = "backend")
                    => conversationMessages' = conversationMessages]_vars

\* two turns on one conversation overlapped (the one that committed last
\* had read the conversation before the other committed) and both
\* succeeded: the log holds the two pairs in commit order
C24_Witness ==
    LET c == res.turn.conv
        log == getConversationMessages(conversationMessages, c)
    IN  /\ res.status = 200
        /\ res.turn.snapInfo.isNull
        /\ conversations[c].exists
        /\ Len(log) = 4
        /\ log[1].content # log[3].content
        /\ log[3] = UserMessage(c, res.turn.message)
        /\ log[4] = AssistantMessage(c, res.structured)
\* C25: every stored message belongs to a stored conversation, and a step
\* that deletes a conversation leaves none of its messages; this holds
\* also when the conversation is deleted while a turn on it waits for the
\* backend and the turn commits afterwards.
C25_NoOrphanMessages ==
    /\ [](\A i \in DOMAIN conversationMessages :
             conversations[conversationMessages[i].conversationId].exists)
    /\ [][\A c \in ConvIds :
             (conversations[c].exists /\ ~conversations'[c].exists)
             => getConversationMessages(conversationMessages', c) = <<>>]_vars
\* the stored conversations of a ticket
OfTicket(t) == {c \in ConvIds : conversations[c].exists /\ conversations[c].ticketId = t}

\* C26: at most one conversation of a ticket is stored at any time, so with
\* no conversation deleted at most one is ever created; a ticket turn
\* creates a conversation only if none is stored for the ticket and
\* otherwise reads the stored one; every ticket turn in flight, overlapping
\* ones included, is on that conversation and commits to it.
C26_OneConversationPerTicket ==
    /\ [](\A t \in Tickets :
             /\ Cardinality(OfTicket(t)) <= 1
             /\ \A r \in Reqs :
                   (/\ req[r].pc = "backend"
                    /\ req[r].route = "ticket"
                    /\ conversations[req[r].conv].exists
                    /\ conversations[req[r].conv].ticketId = t)
                   => OfTicket(t) = {req[r].conv})
    /\ [][\A r \in Reqs, t \in Tickets :
             /\ (/\ req[r].pc = "idle"
                 /\ req'[r].pc = "backend"
                 /\ req'[r].route = "ticket"
                 /\ conversations'[req'[r].conv].ticketId = t)
                => /\ OfTicket(t)' = {req'[r].conv}
                   /\ OfTicket(t) # {}
                      => /\ OfTicket(t) = {req'[r].conv}
                         /\ nextId' = nextId
                         /\ req'[r].snapPhase = conversations[req'[r].conv].phase
                         /\ req'[r].snapInfo = conversations[req'[r].conv].collectedInfo
                   /\ OfTicket(t) = {} => nextId' = nextId + 1
             /\ (/\ Responds(r, 200)
                 /\ req[r].route = "ticket"
                 /\ conversations[req[r].conv].exists
                 /\ conversations[req[r].conv].ticketId = t)
                => /\ OfTicket(t)' = {req[r].conv}
                   /\ conversations'[req[r].conv].phase = req[r].currentPhase
                   /\ conversations'[req[r].conv].collectedInfo = req[r].collectedInfo]_vars

\* two turns on the ticket are in flight at once, on the one conversation
\* that was ever created
C26_Witness ==
    /\ nextId = 1
    /\ conversations[1].exists
    /\ conversations[1].ticketId = 1
    /\ \A r \in Reqs :
          req[r].pc = "backend" /\ req[r].route = "ticket" /\ req[r].conv = 1
(***************************************************************************)
(* SpecRequest: one call of ServiceNowClient.request, for every number of  *)
(* retries up to MaxRetries and every sequence of outcomes.  Each fetch    *)
(* and each timer the call awaits completes.                               *)
(***************************************************************************)
InitRequest ==
    /\ qRetries \in 0..MaxRetries
    /\ qLog = <<>>
    /\ qEnd = Running
    /\ IdleCore
    /\ IdleBuild
    /\ IdleTickets

\* one pass of the loop: fetch, and what the pass does with its outcome
Attempt(outcome) ==
    /\ qEnd = Running
    /\ Len(qLog) < qRetries
    /\ qLog' = Append(qLog, outcome)
    /\ qEnd' = LoopPass(Len(qLog), qRetries, outcome)
    /\ UNCHANGED <<qRetries, coreVars, buildVars, syncVars>>

\* the loop condition fails: throw new Error("Max retries exceeded")
Exhausted ==
    /\ qEnd = Running
    /\ Len(qLog) >= qRetries
    /\ qEnd' = Throws("Max retries exceeded")
    /\ UNCHANGED <<qRetries, qLog, coreVars, buildVars, syncVars>>

NextRequest == (\E outcome \in Outcomes : Attempt(outcome)) \/ Exhausted

SpecRequest == InitRequest /\ [][NextRequest]_vars /\ WF_vars(NextRequest)

C29_RetriesOnlyRetryable ==
    [][Len(qLog') = Len(qLog) + 1
       => /\ qLog'[Len(qLog')] = "s400" => qEnd' = Throws("ServiceNow API error")
          /\ Len(qLog) >= 1
             => \/ qLog[Len(qLog)] \in {"s429", "threw"}
                \/ qLog[Len(qLog)] = "s500" /\ Len(qLog) < qRetries]_vars
(***************************************************************************)
(* SpecSync: POST /api/sn/incidents/create-from-ticket/:ticketId and       *)
(* POST /api/sn/sync/pull on one local ticket and the incident table.  A   *)
(* handler runs without interruption up to its call of ServiceNow and from *)
(* the answer to its response; ServiceNow serves a call at some moment in  *)
(* between.                                                                *)
(***************************************************************************)
InitSync ==
    /\ tickets = [t \in TicketIds |-> IF t = 1 THEN LocalTicket ELSE NoTicket]
    /\ incidents \in {<<>>, <<[from |-> 0, acked |-> FALSE]>>}
    /\ sync = [r \in SyncReqs |-> IdleSync]
    /\ syncRes = NoSyncRes
    /\ nSyncs = 0
    /\ IdleCore
    /\ IdleBuild
    /\ IdleRequest

\* a new request takes the least free place of sync
FreePlace(r) ==
    /\ sync[r].pc = "idle"
    /\ \A q \in SyncReqs : q < r => sync[q].pc # "idle"
    /\ nSyncs < MaxSyncs

\* create-from-ticket up to createIncident: 400 if the ticket is linked
CreateFromTicket(r, t) ==
    /\ FreePlace(r)
    /\ tickets[t].exists
    /\ nSyncs' = nSyncs + 1
    /\ IF tickets[t].snSysId # 0
       THEN /\ syncRes' = [status |-> 400, ticket |-> t, list |-> <<>>]
            /\ UNCHANGED sync
       ELSE /\ sync' = [sync EXCEPT ![r] = [IdleSync EXCEPT !.pc = "creating", !.ticket = t]]
            /\ UNCHANGED syncRes
    /\ UNCHANGED <<tickets, incidents, coreVars, buildVars, requestVars>>

\* ServiceNow inserts the incident of createIncident
SnCreatesIncident(r) ==
    /\ sync[r].pc = "creating"
    /\ Len(incidents) < MaxIncidents
    /\ incidents' = Append(incidents, [from |-> sync[r].ticket, acked |-> FALSE])
    /\ sync' = [sync EXCEPT ![r].pc = "created", ![r].sys = Len(incidents) + 1]
    /\ UNCHANGED <<tickets, syncRes, nSyncs, coreVars, buildVars, requestVars>>

\* createIncident returns the incident: updateTicket, 201
CreateIncidentReturns(r) ==
    /\ sync[r].pc = "created"
    /\ tickets' = updateTicket(tickets, sync[r].ticket,
                               [snSysId |-> sync[r].sys, snNumber |-> sync[r].sys,
                                snSyncStatus |-> "ok"])
    /\ incidents' = [incidents EXCEPT ![sync[r].sys].acked = TRUE]
    /\ syncRes' = [status |-> 201, ticket |-> sync[r].ticket, list |-> <<sync[r].sys>>]
    /\ sync' = [sync EXCEPT ![r] = IdleSync]
    /\ UNCHANGED <<nSyncs, coreVars, buildVars, requestVars>>

\* createIncident throws, the incident inserted or not: the catch block
CreateIncidentThrows(r) ==
    /\ sync[r].pc \in {"creating", "created"}
    /\ tickets' = updateTicket(tickets, sync[r].ticket, [snSyncStatus |-> "failed"])
    /\ syncRes' = [status |-> 500, ticket |-> sync[r].ticket, list |-> <<>>]
    /\ sync' = [sync EXCEPT ![r] = IdleSync]
    /\ UNCHANGED <<incidents, nSyncs, coreVars, buildVars, requestVars>>

\* pull up to getIncidents, and ServiceNow listing the incident table
SyncPull(r) ==
    /\ FreePlace(r)
    /\ nSyncs' = nSyncs + 1
    /\ sync' = [sync EXCEPT ![r] =
                   [IdleSync EXCEPT !.pc = "pulling",
                                    !.list = [i \in 1..Len(incidents) |-> i]]]
    /\ UNCHANGED <<tickets, incidents, syncRes, coreVars, buildVars, requestVars>>

\* getIncidents returns: the loop over the incidents, 200
GetIncidentsReturns(r) ==
    /\ sync[r].pc = "pulling"
    /\ tickets' = PullLoop(tickets, sync[r].list)
    /\ syncRes' = [status |-> 200, ticket |-> 0, list |-> sync[r].list]
    /\ sync' = [sync EXCEPT ![r] = IdleSync]
    /\ UNCHANGED <<incidents, nSyncs, coreVars, buildVars, requestVars>>

\* getIncidents throws: 500
GetIncidentsThrows(r) ==
    /\ sync[r].pc = "pulling"
    /\ syncRes' = [status |-> 500, ticket |-> 0, list |-> <<>>]
    /\ sync' = [sync EXCEPT ![r] = IdleSync]
    /\ UNCHANGED <<tickets, incidents, nSyncs, coreVars, buildVars, requestVars>>

NextSync ==
    \/ \E r \in SyncReqs, t \in TicketIds : CreateFromTicket(r, t)
    \/ \E r \in SyncReqs : SnCreatesIncident(r)
    \/ \E r \in SyncReqs : CreateIncidentReturns(r)
    \/ \E r \in SyncReqs : CreateIncidentThrows(r)
    \/ \E r \in SyncReqs : SyncPull(r)
    \/ \E r \in SyncReqs : GetIncidentsReturns(r)
    \/ \E r \in SyncReqs : GetIncidentsThrows(r)

SpecSync == InitSync /\ [][NextSync]_vars

\* C27: of the create-from-ticket requests on one ticket, overlapping ones
\* included, createIncident returns an incident to at most one; a request
\* that finds snSysId set is answered 400 and calls ServiceNow not at all;
\* snSysId and snNumber, once set, are not replaced; a request whose
\* createIncident throws sets snSyncStatus to "failed" and leaves snSysId.
C27_OneIncidentPerTicket ==
    /\ [](\A t \in TicketIds :
             Cardinality({i \in DOMAIN incidents :
                             incidents[i].from = t /\ incidents[i].acked}) <= 1)
    /\ [][\A t \in TicketIds :
             /\ tickets[t].snSysId # 0
                => /\ tickets'[t].snSysId = tickets[t].snSysId
                   /\ tickets'[t].snNumber = tickets[t].snNumber
             /\ (nSyncs' = nSyncs + 1 /\ tickets[t].snSysId # 0
                 /\ \E r \in SyncReqs : ENABLED CreateFromTicket(r, t))
                => \/ \E r \in SyncReqs : sync'[r].pc = "pulling" /\ sync[r].pc = "idle"
                   \/ /\ syncRes'.status = 400
                      /\ sync' = sync
                      /\ incidents' = incidents
                   \/ \E r \in SyncReqs : sync'[r].pc = "creating" /\ sync'[r].ticket # t
             /\ \A r \in SyncReqs :
                   (/\ sync[r].pc \in {"creating", "created"}
                    /\ sync[r].ticket = t
                    /\ sync'[r].pc = "idle"
                    /\ syncRes'.status = 500)
                   => /\ tickets'[t].snSyncStatus = "failed"
                      /\ tickets'[t].snSysId = tickets[t].snSysId]_vars

\* C30: no two local tickets have the same snSysId other than null; a pull
\* skips every listed incident whose sys_id a local ticket has and imports
\* the others, so a pull whose listed incidents all have a local ticket
\* (as after a pull of the same list) leaves the tickets unchanged.
C30_PullKeepsSysIdUnique ==
    /\ [](\A a, b \in TicketIds :
             (/\ a # b
              /\ tickets[a].exists
              /\ tickets[b].exists
              /\ tickets[a].snSysId # 0)
             => tickets[a].snSysId # tickets[b].snSysId)
    /\ [][\A r \in SyncReqs :
             (sync[r].pc = "pulling" /\ sync'[r].pc = "idle" /\ syncRes'.status = 200)
             => LET list == sync[r].list
                    known == {i \in DOMAIN list : getTicketBySnSysId(tickets, list[i]) # {}}
                IN  /\ \A t \in TicketIds : tickets[t].exists => tickets'[t] = tickets[t]
                    /\ \A i \in DOMAIN list :
                          Cardinality(getTicketBySnSysId(tickets', list[i]))
                             = (IF i \in known
                                THEN Cardinality(getTicketBySnSysId(tickets, list[i]))
                                ELSE 1)
                    /\ Cardinality({t \in TicketIds : tickets'[t].exists})
                          = Cardinality({t \in TicketIds : tickets[t].exists})
                            + Len(list) - Cardinality(known)
                    /\ known = DOMAIN list => tickets' = tickets]_vars
====
